---- MODULE Spec2Model ----
(***************************************************************************)
(* Model of bus_model.py: parse_time, scheduled_bus_trips, stagger_501 and *)
(* offset_original.  Strings are sequences of one-character strings, an    *)
(* Instant is a number of minutes counted from midnight of base_date, a    *)
(* raw table is a set of column names plus a sequence of rows (functions   *)
(* from the column names to cells), and a derived DataFrame is a set of    *)
(* column names plus a sequence of trip records.                           *)
(***************************************************************************)
EXTENDS Integers, Sequences, FiniteSets, TLC

VARIABLES schedule, orig, df, last, args, out, cell, parsed

vars == <<schedule, orig, df, last, args, out, cell, parsed>>

\* ------------------------------------------------------------------ bounds
MaxLen == 6
MaxRows == 2
MaxCopies == 2

\* ----------------------------------------------------------------- strings
Digits == {"0", "1", "2", "3", "4", "5", "6", "7", "8", "9"}

DigitVal(c) ==
  CASE c = "0" -> 0 [] c = "1" -> 1 [] c = "2" -> 2 [] c = "3" -> 3
    [] c = "4" -> 4 [] c = "5" -> 5 [] c = "6" -> 6 [] c = "7" -> 7
    [] c = "8" -> 8 [] c = "9" -> 9

DigitChar(n) ==
  CASE n = 0 -> "0" [] n = 1 -> "1" [] n = 2 -> "2" [] n = 3 -> "3"
    [] n = 4 -> "4" [] n = 5 -> "5" [] n = 6 -> "6" [] n = 7 -> "7"
    [] n = 8 -> "8" [] n = 9 -> "9"

\* the missing value (None / NaN) of a cell: pd.isna is true of it alone
NA == <<"NaN">>

isna(t) == t = NA

notna(t) == ~isna(t)

RECURSIVE lstrip(_)
lstrip(s) == IF s # <<>> /\ Head(s) = " " THEN lstrip(Tail(s)) ELSE s

RECURSIVE rstrip(_)
rstrip(s) ==
  IF s # <<>> /\ s[Len(s)] = " " THEN rstrip(SubSeq(s, 1, Len(s) - 1)) ELSE s

\* str(t).strip()
strip(s) == rstrip(lstrip(s))

\* s[-5:]
Last5(s) == IF Len(s) <= 5 THEN s ELSE SubSeq(s, Len(s) - 4, Len(s))

\* %H is the regular expression 2[0-3]|[0-1]\d|\d : the number of characters
\* it takes at the head of s, 0 when it does not match.  The alternatives
\* exclude each other once the colon has to follow, so the first that
\* matches is the one the regex engine settles on.
HourLen(s) ==
  IF Len(s) >= 2 /\ s[1] = "2" /\ s[2] \in {"0", "1", "2", "3"} THEN 2
  ELSE IF Len(s) >= 2 /\ s[1] \in {"0", "1"} /\ s[2] \in Digits THEN 2
  ELSE IF Len(s) >= 1 /\ s[1] \in Digits THEN 1
  ELSE 0

\* %M is the regular expression [0-5]\d|\d
MinuteLen(s) ==
  IF Len(s) >= 2 /\ s[1] \in {"0", "1", "2", "3", "4", "5"} /\ s[2] \in Digits
    THEN 2
  ELSE IF Len(s) >= 1 /\ s[1] \in Digits THEN 1
  ELSE 0

Number(s) ==
  IF Len(s) = 1 THEN DigitVal(s[1]) ELSE 10 * DigitVal(s[1]) + DigitVal(s[2])

\* datetime.strptime(s, "%H:%M"): the minute of the day, or a ValueError when
\* the pattern does not match or leaves characters unconverted
strptime(s) ==
  LET hl == HourLen(s)
      r1 == SubSeq(s, hl + 1, Len(s))
      r2 == IF r1 # <<>> THEN Tail(r1) ELSE <<>>
      ml == MinuteLen(r2)
  IN IF hl > 0 /\ r1 # <<>> /\ Head(r1) = ":" /\ ml > 0 /\ ml = Len(r2)
       THEN [ok |-> TRUE,
             min |-> 60 * Number(SubSeq(s, 1, hl)) + Number(r2)]
       ELSE [ok |-> FALSE, min |-> 0]

\* strftime("%H:%M") of an instant given in minutes from midnight of base_date
strftime(m) ==
  LET h == (m % 1440) \div 60
      mi == m % 60
  IN <<DigitChar(h \div 10), DigitChar(h % 10), ":",
       DigitChar(mi \div 10), DigitChar(mi % 10)>>

\* ------------------------------------------------------------- parse_time
None == [some |-> FALSE, min |-> 0]

parse_time(tstr) ==
  IF isna(tstr) THEN None
  ELSE LET t == strptime(Last5(strip(tstr)))
       IN IF t.ok THEN [some |-> TRUE, min |-> t.min] ELSE None

\* ---------------------------------------------------------------- tables
stop_from == "Medical Center Transit Center"

stop_to == "UTSA"

DerivedColumns == {"bus_departure", "bus_arrival", "travel_time (min)"}

\* pd.DataFrame(trips): a list of no records gives a frame with no columns
DataFrame(trips) ==
  [columns |-> IF trips = <<>> THEN {} ELSE DerivedColumns, rows |-> trips]

EmptyFrame == DataFrame(<<>>)

\* row.get(col): None when the row has no such label
RowGet(row, col) == IF col \in DOMAIN row THEN row[col] ELSE NA

\* ---------------------------------------------------- scheduled_bus_trips
SkipRowEither(dep, arr) == ~dep.some /\ ~arr.some

\* if dep is None or arr is None: continue
SkipRow(dep, arr) == ~dep.some \/ ~arr.some

OvernightStrict(dep, arr) == IF arr < dep THEN arr + 1440 ELSE arr

\* if arr <= dep: arr += timedelta(days=1)
Overnight(dep, arr) == IF arr <= dep THEN arr + 1440 ELSE arr

\* the record appended for a row whose two cells parsed
TripRecord(dep, arr) ==
  LET arr2 == Overnight(dep, arr)
  IN [bus_departure |-> strftime(dep),
      bus_arrival |-> strftime(arr2),
      travel_time |-> arr2 - dep]

RECURSIVE Trips(_)
Trips(rows) ==
  IF rows = <<>> THEN <<>>
  ELSE LET row == Head(rows)
           dep == parse_time(RowGet(row, stop_from))
           arr == parse_time(RowGet(row, stop_to))
       IN IF SkipRow(dep, arr) THEN Trips(Tail(rows))
          ELSE <<TripRecord(dep.min, arr.min)>> \o Trips(Tail(rows))

scheduled_bus_trips(sch) ==
  [status |-> "ok", table |-> DataFrame(Trips(sch.rows))]

\* ------------------------------------------------------------ stagger_501
\* the lambda of the apply: strptime of the last five characters of the
\* trimmed value, plus the shift, rendered again; a missing value is kept
ShiftCell(t, shift) ==
  IF notna(t)
    THEN LET p == strptime(Last5(strip(t)))
         IN [ok |-> p.ok, val |-> IF p.ok THEN strftime(p.min + shift) ELSE t]
    ELSE [ok |-> TRUE, val |-> t]

\* shifted[col] = shifted[col].apply(...): KeyError without the column,
\* ValueError from strptime at a value that does not parse
ShiftColumn(tbl, col, shift) ==
  IF col \notin tbl.columns
    THEN [status |-> "KeyError", table |-> tbl]
  ELSE IF \E r \in 1..Len(tbl.rows) : ~ShiftCell(tbl.rows[r][col], shift).ok
    THEN [status |-> "ValueError", table |-> tbl]
  ELSE [status |-> "ok",
        table |-> [tbl EXCEPT !.rows =
                     [r \in 1..Len(tbl.rows) |->
                        [tbl.rows[r] EXCEPT ![col] = ShiftCell(@, shift).val]]]]

\* for col in [stop_from, stop_to]
ShiftedCopy(tbl, shift) ==
  LET a == ShiftColumn(tbl, stop_from, shift)
  IN IF a.status # "ok" THEN a ELSE ShiftColumn(a.table, stop_to, shift)

InputAliased(sch, shifted) == shifted

\* shifted = schedule_501.copy(): the column assignments go to the copy and
\* the caller's table keeps its cells
InputAfterShift(sch, shifted) == sch

\* for i in range(1, num_copies + 1)
RECURSIVE StaggerLoop(_, _, _, _, _)
StaggerLoop(i, sch, all_rows, interval_minutes, num_copies) ==
  IF i > num_copies
    THEN [status |-> "ok", input |-> sch, all_rows |-> all_rows]
  ELSE LET sh == ShiftedCopy(sch, i * interval_minutes)
       IN IF sh.status # "ok"
            THEN [status |-> sh.status, input |-> sch, all_rows |-> all_rows]
            ELSE StaggerLoop(i + 1, InputAfterShift(sch, sh.table),
                             Append(all_rows, sh.table),
                             interval_minutes, num_copies)

\* pd.concat(all_rows, ignore_index=True) of tables with the same columns
RECURSIVE ConcatRows(_)
ConcatRows(tables) ==
  IF tables = <<>> THEN <<>>
  ELSE Head(tables).rows \o ConcatRows(Tail(tables))

concat(tables) == [columns |-> Head(tables).columns, rows |-> ConcatRows(tables)]

\* code point order of the characters an HH:MM string is made of
CharOrd(c) == IF c = ":" THEN 58 ELSE 48 + DigitVal(c)

\* a <= b for strings of digits and colons, as Python compares str
RECURSIVE StrLE(_, _)
StrLE(a, b) ==
  IF a = <<>> THEN TRUE
  ELSE IF b = <<>> THEN FALSE
  ELSE IF CharOrd(Head(a)) # CharOrd(Head(b))
    THEN CharOrd(Head(a)) < CharOrd(Head(b))
  ELSE StrLE(Tail(a), Tail(b))

\* the places where record r may go into the ascending sequence s: after the
\* records with a smaller departure and before those with a greater one
InsertSorted(s, r) ==
  LET lo == Cardinality({q \in 1..Len(s) :
                           ~StrLE(r.bus_departure, s[q].bus_departure)})
      hi == Cardinality({q \in 1..Len(s) :
                           StrLE(s[q].bus_departure, r.bus_departure)})
  IN {[q \in 1..(Len(s) + 1) |->
         IF q <= p THEN s[q] ELSE IF q = p + 1 THEN r ELSE s[q - 1]] :
      p \in lo..hi}

\* the ascending orders of the first i - 1 records, extended by the others
RECURSIVE Arrangements(_, _, _)
Arrangements(sorted, rows, i) ==
  IF i > Len(rows) THEN sorted
  ELSE Arrangements(UNION {InsertSorted(s, rows[i]) : s \in sorted},
                    rows, i + 1)

Unsorted(rows) == {rows}

\* sort_values(by="bus_departure").reset_index(drop=True): the default sort
\* is not stable, so every ascending order of the records is an outcome
sort_values(rows) == UNION {Arrangements({<<>>}, rv, 1) : rv \in {rows}}

stagger_501(sch, interval_minutes, num_copies) ==
  LET l == StaggerLoop(1, sch, <<sch>>, interval_minutes, num_copies)
      d == scheduled_bus_trips(concat(l.all_rows)).table
  IN [input |-> l.input,
      results |->
        IF l.status # "ok"
          THEN {[status |-> l.status, table |-> EmptyFrame]}
        ELSE IF "bus_departure" \notin d.columns
          THEN {[status |-> "KeyError", table |-> EmptyFrame]}
        ELSE {[status |-> "ok", table |-> [d EXCEPT !.rows = r]] :
                r \in sort_values(d.rows)}]

\* -------------------------------------------------------- offset_original
\* lambda t: (datetime.strptime(t, "%H:%M") + offset).strftime("%H:%M")
OffsetTime(t, offset_minutes) == strftime(strptime(t).min + offset_minutes)

\* new_df = df.copy(): the caller's frame keeps its values
InputAfterOffset(frame, shifted) == frame

offset_original(frame, offset_minutes) ==
  IF "bus_departure" \notin frame.columns
    THEN [input |-> frame, status |-> "KeyError", table |-> EmptyFrame]
  ELSE LET new_df ==
             [frame EXCEPT !.rows =
                [r \in 1..Len(frame.rows) |->
                   [frame.rows[r] EXCEPT
                      !.bus_departure = OffsetTime(@, offset_minutes),
                      !.bus_arrival = OffsetTime(@, offset_minutes)]]]
       IN [input |-> InputAfterOffset(frame, new_df),
           status |-> "ok", table |-> new_df]

\* ----------------------------------------------------------- input values
t0800 == <<"0", "8", ":", "0", "0">>

t2350 == <<"2", "3", ":", "5", "0">>

t0010 == <<"0", "0", ":", "1", "0">>

\* a time behind a prefix and padding
tPrefixed == <<"x", "0", "8", ":", "3", "0", " ">>

\* a value that is no time
tJunk == <<"n", "/", "a">>

\* the rows a raw table is made of, as <<stop_from cell, stop_to cell>>:
\* equal times, a daytime trip, an overnight trip (its copy 20 minutes later
\* departs when the daytime trip does), a missing cell, an unparsable cell,
\* a prefixed time
RowValues ==
  {<<t0800, t0800>>, <<t0010, t0800>>, <<t2350, t0010>>, <<NA, t0800>>,
   <<t0010, tJunk>>, <<tPrefixed, t0010>>}

ColumnSets == SUBSET {stop_from, stop_to}

\* the row of a table that has the columns cols
Row(pair, cols) ==
  [c \in cols |-> IF c = stop_from THEN pair[1] ELSE pair[2]]

Tables ==
  {[columns |-> cols, rows |-> [i \in DOMAIN ps |-> Row(ps[i], cols)]] :
     ps \in UNION {[1..n -> RowValues] : n \in 0..MaxRows},
     cols \in ColumnSets}

Intervals == {0, 20}

Offsets == {-20, 0, 20}

\* the characters the strings given to parse_time are made of
Alphabet == {"0", "2", "6", ":", " ", "x"}

Strings == UNION {[1..n -> Alphabet] : n \in 0..MaxLen}

NoArgs == [interval_minutes |-> 0, num_copies |-> 0, offset_minutes |-> 0]

NoResult == [status |-> "none", table |-> EmptyFrame]

\* ---------------------------------------------------------- state machine
\* the script's state once a schedule is loaded (read_csv)
Init ==
  /\ schedule \in Tables
  /\ orig = schedule
  /\ df = EmptyFrame
  /\ last = "load"
  /\ args = NoArgs
  /\ out = NoResult
  /\ cell = NA
  /\ parsed = None

\* df = scheduled_bus_trips(schedule, stop_from, stop_to)
CallDerive ==
  /\ out' = scheduled_bus_trips(schedule)
  /\ df' = out'.table
  /\ last' = "scheduled_bus_trips"
  /\ args' = NoArgs
  /\ UNCHANGED <<schedule, orig, cell, parsed>>

\* stagger_501(schedule, stop_from, stop_to, interval_minutes, num_copies)
CallStagger ==
  /\ last # "load"
  /\ \E iv \in Intervals, n \in 0..MaxCopies :
       \E c \in {stagger_501(schedule, iv, n)} :
         /\ schedule' = c.input
         /\ out' \in c.results
         /\ args' = [NoArgs EXCEPT !.interval_minutes = iv, !.num_copies = n]
  /\ last' = "stagger_501"
  /\ UNCHANGED <<orig, df, cell, parsed>>

\* offset_original(df, offset_minutes)
CallOffset ==
  /\ last # "load"
  /\ \E k \in Offsets :
       \E c \in {offset_original(df, k)} :
         /\ df' = c.input
         /\ out' = [status |-> c.status, table |-> c.table]
         /\ args' = [NoArgs EXCEPT !.offset_minutes = k]
  /\ last' = "offset_original"
  /\ UNCHANGED <<schedule, orig, cell, parsed>>

Next == CallDerive \/ CallStagger \/ CallOffset

Spec == Init /\ [][Next]_vars

\* parse_time alone, on every string over Alphabet up to MaxLen characters
InitParse ==
  /\ cell \in Strings \cup {NA}
  /\ parsed = None
  /\ schedule = [columns |-> {}, rows |-> <<>>]
  /\ orig = schedule
  /\ df = EmptyFrame
  /\ last = "load"
  /\ args = NoArgs
  /\ out = NoResult

CallParse ==
  /\ last = "load"
  /\ parsed' = parse_time(cell)
  /\ last' = "parse_time"
  /\ UNCHANGED <<schedule, orig, df, args, out, cell>>

NextParse == CallParse

SpecParse == InitParse /\ [][NextParse]_vars

\* ------------------------------------------------------ property helpers
\* a cell that is exactly two digits 00-23, a colon and two digits 00-59
IsStrictHHMM(s) ==
  /\ Len(s) = 5
  /\ s[1] \in Digits /\ s[2] \in Digits /\ s[3] = ":"
  /\ s[4] \in Digits /\ s[5] \in Digits
  /\ 10 * DigitVal(s[1]) + DigitVal(s[2]) <= 23
  /\ 10 * DigitVal(s[4]) + DigitVal(s[5]) <= 59

\* minute of the day written by a strict HH:MM string
MinuteOfDay(s) ==
  60 * (10 * DigitVal(s[1]) + DigitVal(s[2]))
    + 10 * DigitVal(s[4]) + DigitVal(s[5])

\* the indices, in increasing order, of the rows whose two cells parse
ParsedRows(tbl) ==
  SelectSeq([i \in 1..Len(tbl.rows) |-> i],
            LAMBDA i : /\ parse_time(RowGet(tbl.rows[i], stop_from)).some
                       /\ parse_time(RowGet(tbl.rows[i], stop_to)).some)

DepartureOf(tbl, i) == parse_time(RowGet(tbl.rows[i], stop_from)).min

ArrivalOf(tbl, i) == parse_time(RowGet(tbl.rows[i], stop_to)).min

Count(seq, x) == Cardinality({i \in 1..Len(seq) : seq[i] = x})

Range(seq) == {seq[i] : i \in 1..Len(seq)}

\* the two sequences hold the same records the same number of times
SameBag(a, b) ==
  /\ Len(a) = Len(b)
  /\ \A x \in Range(a) \cup Range(b) : Count(a, x) = Count(b, x)

BothColumns(tbl) == {stop_from, stop_to} \subseteq tbl.columns

\* ----------------------------------------------------------------- claims
\* C1: for every row whose two cells parse to departure minute d and arrival
\* minute a, scheduled_bus_trips emits travel time a - d when a > d and
\* a - d + 1440 when a <= d; equal times give 1440 and 23:50 to 00:10 gives 20.
C1_TravelTime ==
  last = "scheduled_bus_trips" =>
    LET idx == ParsedRows(schedule)
        rows == out.table.rows
    IN /\ Len(rows) = Len(idx)
       /\ \A k \in 1..Len(idx) :
            LET d == DepartureOf(schedule, idx[k])
                a == ArrivalOf(schedule, idx[k])
            IN /\ rows[k].travel_time = IF a > d THEN a - d ELSE a - d + 1440
               /\ a = d => rows[k].travel_time = 1440
               /\ (d = 23 * 60 + 50 /\ a = 10) => rows[k].travel_time = 20

C1_Witness ==
  /\ last = "scheduled_bus_trips"
  /\ \E k \in 1..Len(out.table.rows) :
       /\ out.table.rows[k].travel_time = 1440
       /\ out.table.rows[k].bus_departure = out.table.rows[k].bus_arrival
  /\ \E k \in 1..Len(out.table.rows) :
       /\ out.table.rows[k].travel_time = 20
       /\ out.table.rows[k].bus_departure = t2350
       /\ out.table.rows[k].bus_arrival = t0010

\* C2: the output of scheduled_bus_trips is the subsequence of the input rows
\* whose stop_from and stop_to cells both parse, one record per such row in
\* input order, without an error; it never has more rows than the input.
C2_Subsequence ==
  last = "scheduled_bus_trips" =>
    LET idx == ParsedRows(schedule)
        rows == out.table.rows
    IN /\ out.status = "ok"
       /\ Len(rows) = Len(idx)
       /\ Len(rows) <= Len(schedule.rows)
       /\ \A k \in 1..Len(idx) :
            /\ rows[k].bus_departure = strftime(DepartureOf(schedule, idx[k]))
            /\ rows[k].bus_arrival = strftime(ArrivalOf(schedule, idx[k]))

C2_Witness ==
  /\ last = "scheduled_bus_trips"
  /\ Len(schedule.rows) = 2
  /\ BothColumns(schedule)
  /\ Len(out.table.rows) = 1
  /\ ParsedRows(schedule) = <<2>>

\* C3: parse_time returns an Instant exactly when the last five characters
\* of the trimmed value are two digits 00-23, a colon and two digits 00-59,
\* and that Instant rendered as HH:MM gives those five characters back; every
\* other input gives null.
C3_StrictParse ==
  last = "parse_time" =>
    LET s == Last5(strip(cell))
    IN /\ parsed.some <=> (notna(cell) /\ IsStrictHHMM(s))
       /\ parsed.some => strftime(parsed.min) = s

\* C8: when the table lacks the stop_from or the stop_to column,
\* scheduled_bus_trips fails with an error instead of returning a table.
C8_MissingColumnFails ==
  (last = "scheduled_bus_trips" /\ ~BothColumns(schedule)) =>
    out.status # "ok"

\* some cell of a time column is present but does not parse
HasUnparsable(tbl) ==
  \E r \in 1..Len(tbl.rows), c \in {stop_from, stop_to} :
    /\ notna(tbl.rows[r][c])
    /\ ~parse_time(tbl.rows[r][c]).some

\* every cell of the time columns is a strict HH:MM string or missing
ValidOrMissing(tbl) ==
  \A r \in 1..Len(tbl.rows), c \in {stop_from, stop_to} :
    isna(tbl.rows[r][c]) \/ IsStrictHHMM(tbl.rows[r][c])

\* the records of copy i of the base table: every row with both times valid,
\* both times advanced by i * interval_minutes, the travel time of the base
CopyRecords(tbl, i, interval_minutes) ==
  LET idx == ParsedRows(tbl)
  IN [k \in 1..Len(idx) |->
        LET d == DepartureOf(tbl, idx[k])
            a == ArrivalOf(tbl, idx[k])
        IN [bus_departure |-> strftime((d + i * interval_minutes) % 1440),
            bus_arrival |-> strftime((a + i * interval_minutes) % 1440),
            travel_time |-> IF a > d THEN a - d ELSE a - d + 1440]]

RECURSIVE AllCopyRecords(_, _, _)
AllCopyRecords(tbl, i, interval_minutes) ==
  IF i < 0 THEN <<>>
  ELSE AllCopyRecords(tbl, i - 1, interval_minutes)
         \o CopyRecords(tbl, i, interval_minutes)

\* C4: with an unparsable, non-missing time value in the base table,
\* stagger_501 with num_copies >= 1 raises no error: the row is dropped from
\* the original and from every copy and the other rows are derived.
C4_StaggerDropsUnparsable ==
  (/\ last = "stagger_501"
   /\ args.num_copies >= 1
   /\ BothColumns(schedule)
   /\ HasUnparsable(schedule)) =>
    /\ out.status = "ok"
    /\ Len(out.table.rows) =
         (args.num_copies + 1) * Len(ParsedRows(schedule))

\* C5: for every base table, also one with no rows or with no row that has
\* both times valid, stagger_501 with num_copies = 0 returns the rows of
\* scheduled_bus_trips on the base table, as a multiset.
C5_ZeroCopies ==
  (last = "stagger_501" /\ args.num_copies = 0) =>
    /\ out.status = "ok"
    /\ SameBag(out.table.rows, scheduled_bus_trips(schedule).table.rows)

\* C6: for a base table whose cells are valid HH:MM or missing, the result of
\* stagger_501 holds, for each base row with both times valid and each copy
\* index i in 0..num_copies, exactly one record with both times advanced by
\* i * interval_minutes modulo 24 hours and the base row's travel time, and
\* no other record.
C6_StaggerRecords ==
  (/\ last = "stagger_501"
   /\ BothColumns(schedule)
   /\ ValidOrMissing(schedule)) =>
    /\ out.status = "ok"
    /\ SameBag(out.table.rows,
               AllCopyRecords(schedule, args.num_copies,
                              args.interval_minutes))
    /\ Len(out.table.rows) =
         (args.num_copies + 1) * Len(ParsedRows(schedule))

\* C7: in every table stagger_501 returns, the departures are in
\* non-decreasing order of their time of day from the first row to the last.
C7_SortedByDeparture ==
  (last = "stagger_501" /\ out.status = "ok") =>
    \A k \in 1..(Len(out.table.rows) - 1) :
      /\ IsStrictHHMM(out.table.rows[k].bus_departure)
      /\ IsStrictHHMM(out.table.rows[k + 1].bus_departure)
      /\ MinuteOfDay(out.table.rows[k].bus_departure)
           <= MinuteOfDay(out.table.rows[k + 1].bus_departure)

\* a copy that crossed midnight stands before the departure it came from
C7_Witness ==
  /\ last = "stagger_501"
  /\ out.status = "ok"
  /\ args.interval_minutes = 20
  /\ args.num_copies >= 1
  /\ Len(out.table.rows) >= 2
  /\ out.table.rows[1].bus_departure = t0010
  /\ out.table.rows[Len(out.table.rows)].bus_departure = t2350
  /\ \A r \in 1..Len(schedule.rows) : schedule.rows[r][stop_from] = t2350

\* C9: for every table D returned by scheduled_bus_trips, also one with no
\* rows, and every offset k, offset_original(D, k) returns as many rows in
\* the same order, departure and arrival advanced by k minutes modulo 24
\* hours and the travel time unchanged; with k = 0 the result equals D.
C9_OffsetShifts ==
  last = "offset_original" =>
    /\ out.status = "ok"
    /\ Len(out.table.rows) = Len(df.rows)
    /\ \A r \in 1..Len(df.rows) :
         /\ MinuteOfDay(out.table.rows[r].bus_departure) =
              (MinuteOfDay(df.rows[r].bus_departure) + args.offset_minutes)
                % 1440
         /\ MinuteOfDay(out.table.rows[r].bus_arrival) =
              (MinuteOfDay(df.rows[r].bus_arrival) + args.offset_minutes)
                % 1440
         /\ out.table.rows[r].travel_time = df.rows[r].travel_time
    /\ args.offset_minutes = 0 => out.table = df

\* C10: scheduled_bus_trips, stagger_501 and offset_original leave their
\* input table unchanged: after any sequence of calls every cell of the base
\* table has the value it was loaded with (so a later stagger_501 call works
\* on the table a fresh copy would hold), and offset_original leaves the
\* frame it is given as it was.
C10_InputsUnchanged ==
  [][/\ schedule' = schedule
     /\ schedule' = orig
     /\ last' = "offset_original" => df' = df]_vars

C10_Witness ==
  /\ last = "stagger_501"
  /\ args.num_copies >= 1
  /\ args.interval_minutes > 0
  /\ out.status = "ok"
  /\ Len(out.table.rows) = (args.num_copies + 1) * Len(schedule.rows)
  /\ Len(schedule.rows) >= 1
  /\ schedule = orig

====
